---- MODULE Spec2Model ----
(***************************************************************************)
(* A model of the crisp interpreter: lexer, recursive-descent parser,      *)
(* chained environments and the evaluator, driven by the REPL loop.        *)
(*                                                                         *)
(* Source text is a sequence of chunks: "(", ")", a whitespace character,  *)
(* or a run of atom characters.  Numbers are small integers, which f32    *)
(* represents exactly; the number tokens are their decimal spellings.      *)
(***************************************************************************)
EXTENDS Integers, Sequences, FiniteSets, TLC

\* env:    the driver's CrispEnv, as the chain of its scopes (root first)
\* pc:     where the driver is: main, readline, print, exited, aborted; or,
\*         run_program taken step by step: tokens, parsed, returned
\* input:  the source text of the last call of run_program
\* tokens: what the lexer made of it; parsed: what parse made of the tokens
\* output: the result of the call; pre: the environment before the call
\* log:    the trace of evaluations, inserts and errors of the call
VARIABLES env, pc, input, output, log, pre, tokens, parsed

vars == <<env, pc, input, output, log, pre, tokens, parsed>>

\* ------------------------------------------------------------------ bounds

\* Deepest nesting of eval calls before the native stack is exhausted.
MaxDepth == 9
\* Largest number literal of the lexicon.
MaxNum == 2
\* Longest trailing token sequence fed to parse after one expression.
MaxRest == 2

\* Deepest nesting of the lists fed to parse on its own.
MaxNest == 2

\* ------------------------------------------------------- lang.rs: values

Symbol(n) == [t |-> "Symbol", name |-> n]
Number(x) == [t |-> "Number", v |-> x]
Bool(x) == [t |-> "Bool", b |-> x]
List(s) == [t |-> "List", xs |-> s]
Fn(i) == [t |-> "Fn", id |-> i]
Lambda(p, b) == [t |-> "Lambda", params |-> p, body |-> b]

SyntaxError(m) == [kind |-> "SyntaxError", msg |-> m]
MissingParen(l, c) == [kind |-> "MissingParen", line |-> l, char |-> c]
EvalError(m) == [kind |-> "EvalError", msg |-> m]

\* CrispResult, plus the outcome of a panic or of stack exhaustion, which no
\* caller can catch.
Ok(x) == [tag |-> "Ok", val |-> x]
Err(e) == [tag |-> "Err", err |-> e]
Abort(m) == [tag |-> "Abort", why |-> m]

Some(x) == [some |-> TRUE, val |-> x]
None == [some |-> FALSE]

\* ------------------------------------------------------------ lib.rs: lexer

Whitespace == {" ", "\t", "\n"}

RECURSIVE replace(_, _, _)
\* str::replace on a chunked text: every chunk equal to from becomes to.
replace(s, from, to) ==
  IF s = <<>> THEN <<>>
  ELSE (IF Head(s) = from THEN to ELSE <<Head(s)>>) \o replace(Tail(s), from, to)

RECURSIVE split_whitespace(_, _)
\* str::split_whitespace: maximal runs of non-whitespace chunks, glued.
split_whitespace(s, cur) ==
  IF s = <<>> THEN (IF cur = "" THEN <<>> ELSE <<cur>>)
  ELSE IF Head(s) \in Whitespace
       THEN (IF cur = "" THEN <<>> ELSE <<cur>>) \o split_whitespace(Tail(s), "")
       ELSE split_whitespace(Tail(s), cur \o Head(s))

lexer(s) ==
  split_whitespace(replace(replace(s, "(", <<" ", "(", " ">>), ")", <<" ", ")", " ">>), "")

\* ---------------------------------------------------------- parse.rs: parser

\* Decimal spellings of the lexicon's numbers; str::parse::<f32> reads "2" and
\* "2.0" as the same value.
NumToken(n) == CASE n = 0 -> "0" [] n = 1 -> "1" [] n = 2 -> "2" [] n = 3 -> "3"
                 [] n = 4 -> "4" [] n = 5 -> "5" [] n = 6 -> "6" [] OTHER -> "7"

DotToken(n) == NumToken(n) \o ".0"

\* token.parse::<f32>() on the lexicon: Some(value) or None.
parse_f32(token) ==
  IF \E n \in 0..MaxNum : token \in {NumToken(n), DotToken(n)}
  THEN Some(CHOOSE n \in 0..MaxNum : token \in {NumToken(n), DotToken(n)})
  ELSE None

parse_atom(token) ==
  LET float == parse_f32(token)
  IN  IF float.some THEN Ok(Number(float.val)) ELSE Ok(Symbol(token))

ParseOk(e, r) == [tag |-> "Ok", val |-> e, rest |-> r]

RECURSIVE parse(_)
RECURSIVE parse_list(_, _)

\* parse_list that returns at ")" without consuming it.
parse_list_keep(exps, xs) ==
  IF xs = <<>> THEN Err(SyntaxError("Expected a ')'"))
  ELSE IF Head(xs) = ")" THEN ParseOk(List(exps), xs)
  ELSE LET r == parse(xs)
       IN  IF r.tag # "Ok" THEN r ELSE parse_list(Append(exps, r.val), r.rest)

\* The loop of parse_list, with exps the expressions collected so far.
parse_list(exps, xs) ==
  IF xs = <<>> THEN Err(SyntaxError("Expected a ')'"))
  ELSE IF Head(xs) = ")" THEN ParseOk(List(exps), Tail(xs))
  ELSE LET r == parse(xs)
       IN  IF r.tag # "Ok" THEN r ELSE parse_list(Append(exps, r.val), r.rest)

parse(toks) ==
  IF toks = <<>> THEN Err(MissingParen(1, 0))
  ELSE LET first == Head(toks)
           rest == Tail(toks)
       IN  CASE first = "(" -> parse_list(<<>>, rest)
             [] first = ")" -> Err(SyntaxError("Unexpected ')'"))
             [] OTHER -> LET a == parse_atom(first)
                         IN  IF a.tag # "Ok" THEN a ELSE ParseOk(a.val, rest)

\* ------------------------------------------------------ eval.rs: CrispEnv

\* An environment is the chain of its scopes' symbols, root first; the last
\* element is the scope itself, the ones before it its ancestors.
EmptyScope == [n \in {} |-> Number(0)]

from_parent(parent) == Append(parent, EmptyScope)

RECURSIVE get(_, _)
get(e, name) ==
  IF e = <<>> THEN None
  ELSE IF name \in DOMAIN e[Len(e)] THEN Some(e[Len(e)][name])
  ELSE get(SubSeq(e, 1, Len(e) - 1), name)

contains_key(e, name) == name \in DOMAIN e[Len(e)]

\* An insert that writes into the root scope instead of the scope itself.
insert_root(e, name, val) ==
  [e EXCEPT ![1] = [n \in DOMAIN @ \cup {name} |-> IF n = name THEN val ELSE @[n]]]

\* env.symbols.insert(name, val): HashMap::insert on the scope's own symbols.
insert(e, name, val) ==
  [e EXCEPT ![Len(e)] = [n \in DOMAIN @ \cup {name} |-> IF n = name THEN val ELSE @[n]]]

\* CrispEnv::default(): the root scope with the native functions.
Default == << [n \in {"+", "-", "*", ">"} |-> Fn(n)] >>

\* ----------------------------------------------------- eval.rs: evaluator

\* What an evaluation step yields: its result, the environment it leaves and
\* the trace of what it did.
Outcome(r, e, l) == [res |-> r, env |-> e, log |-> l]

\* The trace's events: eval entered and left, an error constructed and
\* returned, a HashMap insert (old is the value it replaced, if any), and a
\* lambda about to be applied to its evaluated arguments.
EvEval(d, x, e) == [k |-> "eval", d |-> d, e |-> x, env |-> e]
EvDone(d, r, e) == [k |-> "done", d |-> d, res |-> r, env |-> e]
EvRaise(d, err) == [k |-> "raise", d |-> d, err |-> err]
EvInsert(d, e, name, val) ==
  [k |-> "insert", d |-> d, scope |-> Len(e), name |-> name, val |-> val,
   old |-> IF contains_key(e, name) THEN Some(e[Len(e)][name]) ELSE None]
EvCall(d, lam, args, e) == [k |-> "call", d |-> d, lam |-> lam, args |-> args, env |-> e]

raise(err, e, d) == Outcome(Err(err), e, <<EvRaise(d, err)>>)

\* parse_floats: the first argument that is no number fails the call.
RECURSIVE parse_floats(_)
parse_floats(args) ==
  IF args = <<>> THEN [ok |-> TRUE, floats |-> <<>>]
  ELSE IF Head(args).t # "Number" THEN [ok |-> FALSE, floats |-> <<>>]
  ELSE LET r == parse_floats(Tail(args))
       IN  IF r.ok THEN [ok |-> TRUE, floats |-> <<Head(args).v>> \o r.floats] ELSE r

RECURSIVE fold(_, _, _)
fold(op, acc, xs) ==
  IF xs = <<>> THEN acc
  ELSE fold(op, CASE op = "+" -> acc + Head(xs)
                  [] op = "-" -> acc - Head(xs)
                  [] OTHER -> acc * Head(xs), Tail(xs))

\* The closures CrispEnv::default() installs.
call_native(id, args) ==
  LET p == parse_floats(args)
      floats == p.floats
  IN  IF ~p.ok THEN Err(EvalError("Expected a number"))
      ELSE CASE id = "+" -> Ok(Number(fold("+", 0, floats)))
             [] id = "-" ->
                  IF floats = <<>> THEN Err(EvalError("- takes at least one argument"))
                  ELSE Ok(Number(fold("-", Head(floats), Tail(floats))))
             [] id = "*" -> Ok(Number(fold("*", 1, floats)))
             [] OTHER ->
                  IF floats = <<>> THEN Err(EvalError("> takes at least one argument"))
                  ELSE IF Tail(floats) = <<>> THEN Err(EvalError("Expected a second argument"))
                  ELSE Ok(Bool(floats[1] > floats[2]))

\* parse_param_list: the names of a parameter list of distinct symbols.
parse_param_list(xs) ==
  IF /\ \A i \in DOMAIN xs : xs[i].t = "Symbol"
     /\ \A i, j \in DOMAIN xs : xs[i] = xs[j] => i = j
  THEN Ok([i \in DOMAIN xs |-> xs[i].name])
  ELSE Err(SyntaxError("Param list must contain only symbols"))

RECURSIVE eval(_, _, _)

\* rest.iter().map(|arg| eval(arg, env)).collect(): left to right, stopping
\* at the first result that is not Ok.
RECURSIVE eval_args(_, _, _, _)
eval_args(args, e, d, acc) ==
  IF args = <<>> THEN [res |-> Ok(List(acc)), vals |-> acc, env |-> e, log |-> <<>>]
  ELSE LET r == eval(Head(args), e, d + 1)
       IN  IF r.res.tag # "Ok"
           THEN [res |-> r.res, vals |-> acc, env |-> r.env, log |-> r.log]
           ELSE LET n == eval_args(Tail(args), r.env, d, Append(acc, r.res.val))
                IN  [n EXCEPT !.log = r.log \o @]

\* The zip/for_each of the lambda branch: each parameter inserted in turn.
RECURSIVE bind_params(_, _, _, _)
bind_params(e, params, vals, d) ==
  IF params = <<>> \/ vals = <<>> THEN Outcome(Ok(List(<<>>)), e, <<>>)
  ELSE LET n == bind_params(insert(e, Head(params), Head(vals)), Tail(params), Tail(vals), d)
       IN  [n EXCEPT !.log = <<EvInsert(d, e, Head(params), Head(vals))>> \o @]

\* The lambda arm with the new scope's parent the root scope instead of the
\* caller's environment.
apply_lambda_global(lambda, a, d) ==
  LET lambda_env == from_parent(<<a.env[1]>>)
      call == <<EvCall(d, lambda, a.vals, a.env)>>
  IN  IF a.res.tag # "Ok" THEN Outcome(a.res, a.env, <<>>)
      ELSE IF Len(a.vals) # Len(lambda.params)
      THEN Outcome(Err(EvalError("Wrong number of arguments were supplied")), a.env,
                   call \o <<EvRaise(d, EvalError("Wrong number of arguments were supplied"))>>)
      ELSE LET b == bind_params(lambda_env, lambda.params, a.vals, d)
               r == eval(lambda.body, b.env, d + 1)
           IN  Outcome(r.res, [a.env EXCEPT ![1] = r.env[1]], call \o b.log \o r.log)

\* The lambda arm without the test of the argument count: zip stops at the
\* shorter of the two sequences.
apply_lambda_noarity(lambda, a, d) ==
  LET lambda_env == from_parent(a.env)
      call == <<EvCall(d, lambda, a.vals, a.env)>>
  IN  IF a.res.tag # "Ok" THEN Outcome(a.res, a.env, <<>>)
      ELSE LET b == bind_params(lambda_env, lambda.params, a.vals, d)
               r == eval(lambda.body, b.env, d + 1)
           IN  Outcome(r.res, SubSeq(r.env, 1, Len(r.env) - 1), call \o b.log \o r.log)

\* The CrispExpr::Lambda arm of eval: a is the outcome of eval_args.
apply_lambda(lambda, a, d) ==
  LET lambda_env == from_parent(a.env)
      call == <<EvCall(d, lambda, a.vals, a.env)>>
  IN  IF a.res.tag # "Ok" THEN Outcome(a.res, a.env, <<>>)
      ELSE IF Len(a.vals) # Len(lambda.params)
      THEN Outcome(Err(EvalError("Wrong number of arguments were supplied")), a.env,
                   call \o <<EvRaise(d, EvalError("Wrong number of arguments were supplied"))>>)
      ELSE LET b == bind_params(lambda_env, lambda.params, a.vals, d)
               r == eval(lambda.body, b.env, d + 1)
           IN  Outcome(r.res, SubSeq(r.env, 1, Len(r.env) - 1), call \o b.log \o r.log)

\* The None arm of eval's match on eval_built_in: function application.
eval_apply(first, rest, e, d) ==
  LET f == eval(first, e, d + 1)
  IN  IF f.res.tag # "Ok" THEN f
      ELSE LET a == eval_args(rest, f.env, d, <<>>)
               first_form == f.res.val
               r == IF a.res.tag = "Abort" THEN Outcome(a.res, a.env, <<>>)
                    ELSE CASE first_form.t = "Fn" ->
                                IF a.res.tag # "Ok" THEN Outcome(a.res, a.env, <<>>)
                                ELSE LET n == call_native(first_form.id, a.vals)
                                     IN  IF n.tag = "Ok" THEN Outcome(n, a.env, <<>>)
                                         ELSE raise(n.err, a.env, d)
                           [] first_form.t = "Lambda" -> apply_lambda(first_form, a, d)
                           [] OTHER -> raise(EvalError("First form must be a function"), a.env, d)
           IN  Outcome(r.res, r.env, f.log \o a.log \o r.log)

RECURSIVE eval_begin_loop(_, _, _, _)

\* The loop of eval_begin without the early return: an error is kept as the
\* last result and the remaining expressions are still evaluated.
eval_begin_loop_continue(args, e, d, last) ==
  IF args = <<>>
  THEN Outcome(IF last.some THEN last.val
               ELSE Abort("called Option::unwrap() on a None value"), e, <<>>)
  ELSE LET r == eval(Head(args), e, d + 1)
       IN  IF r.res.tag = "Abort" THEN r
           ELSE LET n == eval_begin_loop(Tail(args), r.env, d, Some(r.res))
                IN  [n EXCEPT !.log = r.log \o @]

\* The loop of eval_begin, with last the result of the expression before.
eval_begin_loop(args, e, d, last) ==
  IF args = <<>>
  THEN Outcome(IF last.some THEN last.val
               ELSE Abort("called Option::unwrap() on a None value"), e, <<>>)
  ELSE LET r == eval(Head(args), e, d + 1)
       IN  IF r.res.tag # "Ok" THEN r
           ELSE LET n == eval_begin_loop(Tail(args), r.env, d, Some(r.res))
                IN  [n EXCEPT !.log = r.log \o @]

eval_begin(args, e, d) == eval_begin_loop(args, e, d, None)

\* eval_if that evaluates both branches before it chooses between them.
eval_if_eager(args, e, d) ==
  IF Len(args) > 3 THEN raise(EvalError("if takes exactly three arguments"), e, d)
  ELSE IF args = <<>> THEN raise(EvalError("Expected an expression"), e, d)
  ELSE LET t == eval(args[1], e, d + 1)
       IN  IF t.res.tag = "Abort" THEN t
           ELSE IF ~(t.res.tag = "Ok" /\ t.res.val.t = "Bool")
           THEN LET x == raise(EvalError("Test form must evaluate to a boolean"), t.env, d)
                IN  [x EXCEPT !.log = t.log \o @]
           ELSE LET test_res == t.res.val.b
                    i == IF test_res THEN 2 ELSE 3
                    a == IF 2 \in DOMAIN args THEN eval(args[2], t.env, d + 1)
                         ELSE Outcome(t.res, t.env, <<>>)
                    b == IF 3 \in DOMAIN args THEN eval(args[3], a.env, d + 1)
                         ELSE Outcome(t.res, a.env, <<>>)
                IN  IF i \in DOMAIN args
                    THEN Outcome(IF test_res THEN a.res ELSE b.res, b.env, t.log \o a.log \o b.log)
                    ELSE LET x == raise(EvalError("missing true or false clause"), b.env, d)
                         IN  [x EXCEPT !.log = t.log \o a.log \o b.log \o @]

eval_if(args, e, d) ==
  IF Len(args) > 3 THEN raise(EvalError("if takes exactly three arguments"), e, d)
  ELSE IF args = <<>> THEN raise(EvalError("Expected an expression"), e, d)
  ELSE LET t == eval(args[1], e, d + 1)
       IN  IF t.res.tag = "Abort" THEN t
           ELSE IF ~(t.res.tag = "Ok" /\ t.res.val.t = "Bool")
           THEN LET x == raise(EvalError("Test form must evaluate to a boolean"), t.env, d)
                IN  [x EXCEPT !.log = t.log \o @]
           ELSE LET test_res == t.res.val.b
                    i == IF test_res THEN 2 ELSE 3
                IN  IF i \in DOMAIN args
                    THEN LET r == eval(args[i], t.env, d + 1)
                         IN  [r EXCEPT !.log = t.log \o @]
                    ELSE LET x == raise(EvalError("missing true or false clause"), t.env, d)
                         IN  [x EXCEPT !.log = t.log \o @]

\* eval_def that binds the name before it evaluates the value.
eval_def_eager(args, e, d) ==
  IF Len(args) > 2 THEN raise(EvalError("def takes exactly two arguments"), e, d)
  ELSE IF args = <<>> THEN raise(EvalError("Expected a name"), e, d)
  ELSE LET first_form == args[1]
       IN  IF first_form.t # "Symbol"
           THEN raise(EvalError("First argument must be a symbol"), e, d)
           ELSE LET name == first_form.name
                IN  IF contains_key(e, name)
                    THEN raise(EvalError("Variable with name '" \o name \o "' already exists"), e, d)
                    ELSE IF Len(args) < 2 THEN raise(EvalError("Expected a value"), e, d)
                    ELSE LET e1 == insert(e, name, first_form)
                             v == eval(args[2], e1, d + 1)
                         IN  IF v.res.tag # "Ok"
                             THEN [v EXCEPT !.log = <<EvInsert(d, e, name, first_form)>> \o @]
                             ELSE Outcome(Ok(first_form), insert(v.env, name, v.res.val),
                                          <<EvInsert(d, e, name, first_form)>> \o v.log
                                            \o <<EvInsert(d, v.env, name, v.res.val)>>)

\* eval_def without the test for an existing name.
eval_def_overwrite(args, e, d) ==
  IF Len(args) > 2 THEN raise(EvalError("def takes exactly two arguments"), e, d)
  ELSE IF args = <<>> THEN raise(EvalError("Expected a name"), e, d)
  ELSE LET first_form == args[1]
       IN  IF first_form.t # "Symbol"
           THEN raise(EvalError("First argument must be a symbol"), e, d)
           ELSE LET name == first_form.name
                IN  IF Len(args) < 2 THEN raise(EvalError("Expected a value"), e, d)
                    ELSE LET v == eval(args[2], e, d + 1)
                         IN  IF v.res.tag # "Ok" THEN v
                             ELSE Outcome(Ok(first_form), insert(v.env, name, v.res.val),
                                          v.log \o <<EvInsert(d, v.env, name, v.res.val)>>)

eval_def(args, e, d) ==
  IF Len(args) > 2 THEN raise(EvalError("def takes exactly two arguments"), e, d)
  ELSE IF args = <<>> THEN raise(EvalError("Expected a name"), e, d)
  ELSE LET first_form == args[1]
       IN  IF first_form.t # "Symbol"
           THEN raise(EvalError("First argument must be a symbol"), e, d)
           ELSE LET name == first_form.name
                IN  IF contains_key(e, name)
                    THEN raise(EvalError("Variable with name '" \o name \o "' already exists"), e, d)
                    ELSE IF Len(args) < 2 THEN raise(EvalError("Expected a value"), e, d)
                    ELSE LET v == eval(args[2], e, d + 1)
                         IN  IF v.res.tag # "Ok" THEN v
                             ELSE Outcome(Ok(first_form), insert(v.env, name, v.res.val),
                                          v.log \o <<EvInsert(d, v.env, name, v.res.val)>>)

eval_lambda(args, e, d) ==
  IF Len(args) > 2 THEN raise(EvalError("fn takes exactly 2 arguments"), e, d)
  ELSE IF args = <<>> THEN raise(EvalError("Expected a param expression"), e, d)
  ELSE LET params == args[1]
       IN  IF params.t # "List" THEN raise(EvalError("Params should be a list"), e, d)
           ELSE LET symbol_names == parse_param_list(params.xs)
                IN  IF symbol_names.tag # "Ok" THEN raise(symbol_names.err, e, d)
                    ELSE IF Len(args) < 2
                    THEN Outcome(Abort("called Option::unwrap() on a None value"), e, <<>>)
                    ELSE Outcome(Ok(Lambda(symbol_names.val, args[2])), e, <<>>)

\* quote: args.first().map(|list| Ok(list.clone())).
eval_quote(args, e, d) ==
  IF args = <<>> THEN None ELSE Some(Outcome(Ok(args[1]), e, <<>>))

eval_built_in(expr, args, e, d) ==
  IF expr.t # "Symbol" THEN None
  ELSE CASE expr.name = "begin" -> Some(eval_begin(args, e, d))
         [] expr.name = "def" -> Some(eval_def(args, e, d))
         [] expr.name = "fn" -> Some(eval_lambda(args, e, d))
         [] expr.name = "if" -> Some(eval_if(args, e, d))
         [] expr.name = "quote" -> eval_quote(args, e, d)
         [] OTHER -> None

\* The match of eval on the expression's shape.
eval_match(expr, e, d) ==
  CASE expr.t = "List" ->
         IF expr.xs = <<>> THEN raise(EvalError("Can't eval an empty list."), e, d)
         ELSE LET b == eval_built_in(Head(expr.xs), Tail(expr.xs), e, d)
              IN  IF b.some THEN b.val ELSE eval_apply(Head(expr.xs), Tail(expr.xs), e, d)
    [] expr.t = "Symbol" ->
         LET v == get(e, expr.name)
         IN  IF v.some THEN Outcome(Ok(v.val), e, <<>>)
             ELSE raise(EvalError("Unknown symbol: " \o expr.name), e, d)
    [] expr.t \in {"Number", "Bool"} -> Outcome(Ok(expr), e, <<>>)
    [] OTHER -> Outcome(Abort("not yet implemented"), e, <<>>)

\* eval, at nesting depth d of the native call stack.
eval(expr, e, d) ==
  IF d > MaxDepth THEN Outcome(Abort("stack overflow"), e, <<>>)
  ELSE LET r == eval_match(expr, e, d)
       IN  Outcome(r.res, r.env,
                   <<EvEval(d, expr, e)>> \o r.log \o <<EvDone(d, r.res, r.env)>>)

\* ------------------------------------------------------ lib.rs: run_program

run_program(prog, e) ==
  LET toks == lexer(prog)
      res == parse(toks)
  IN  IF res.tag # "Ok" THEN Outcome(res, e, <<>>) ELSE eval(res.val, e, 0)

\* ------------------------------------------------------------------ inputs

\* The token encoding of a well-formed expression, and a source text that
\* spells a token sequence the usual way (no blank after "(" or before ")").
RECURSIVE Unparse(_)
RECURSIVE UnparseAll(_)
UnparseAll(xs) == IF xs = <<>> THEN <<>> ELSE Unparse(Head(xs)) \o UnparseAll(Tail(xs))

Unparse(x) ==
  CASE x.t = "Symbol" -> <<x.name>>
    [] x.t = "Number" -> <<NumToken(x.v)>>
    [] OTHER -> <<"(">> \o UnparseAll(x.xs) \o <<")">>

RECURSIVE Src(_)
Src(toks) ==
  IF toks = <<>> THEN <<>>
  ELSE IF Tail(toks) = <<>> THEN toks
  ELSE IF Head(toks) = "(" \/ toks[2] = ")" THEN <<Head(toks)>> \o Src(Tail(toks))
  ELSE <<Head(toks), " ">> \o Src(Tail(toks))

Text(x) == Src(Unparse(x))

\* Shorthands for writing expressions.
S(n) == Symbol(n)
N(n) == Number(n)
L(xs) == List(xs)

Nums == {N(n) : n \in 1..MaxNum}

\* A lambda that applies its argument to itself: applied to itself it recurses
\* without end.
SelfApply == L(<<S("fn"), L(<<S("h")>>), L(<<S("h"), S("h")>>)>>)

\* One line that binds a, a lambda f whose body reads a as a free variable,
\* and a lambda g whose parameter is a and whose body calls f.
Setup ==
  L(<<S("begin"),
      L(<<S("def"), S("a"), N(1)>>),
      L(<<S("def"), S("f"), L(<<S("fn"), L(<<>>), S("a")>>)>>),
      L(<<S("def"), S("g"), L(<<S("fn"), L(<<S("a")>>), L(<<S("f")>>)>>)>>)>>)

\* def forms: every shape of argument list, values that succeed, fail, and
\* contain a def of their own.
DefValues ==
  Nums \cup
  { S("x"), S("zz"),
    L(<<S("begin"), L(<<S("def"), S("x"), N(1)>>), N(2)>>),
    L(<<S("begin"), L(<<S("def"), S("x"), N(1)>>), S("zz")>>),
    L(<<S("def"), S("y"), N(1)>>) }

DefProgs ==
  { L(<<S("def"), S(n), v>>) : n \in {"x", "y"}, v \in DefValues } \cup
  { L(<<S("def")>>), L(<<S("def"), S("x")>>), L(<<S("def"), N(1), N(2)>>),
    L(<<S("def"), L(<<S("x")>>), N(2)>>), L(<<S("def"), S("x"), N(1), N(2)>>),
    Setup }

\* if forms: tests that are true, false, no boolean, failing; branches with
\* and without effects; missing branches.
IfTests ==
  { L(<<S(">"), N(2), N(1)>>), L(<<S(">"), N(1), N(2)>>), N(1), S("zz"),
    L(<<S("def"), S("y"), N(1)>>) }

IfBranches == { L(<<S("def"), S("x"), N(1)>>), L(<<S("def"), S("y"), N(2)>>), S("zz") }

IfProgs ==
  { L(<<S("if"), t, a, b>>) : t \in IfTests, a \in IfBranches, b \in IfBranches } \cup
  { L(<<S("if"), t, a>>) : t \in IfTests, a \in IfBranches } \cup
  { L(<<S("if"), t>>) : t \in IfTests } \cup
  { L(<<S("if")>>), L(<<S("if"), N(1), N(1), N(1), N(1)>>) }

\* Applications: heads that are native, a lambda, no function, failing.
Heads ==
  { S("+"), S("-"), S(">"), S("f"), S("g"), N(1), S("zz"),
    L(<<S("fn"), L(<<S("a"), S("b")>>), L(<<S("+"), S("a"), S("b")>>)>>),
    L(<<S("fn"), L(<<S("a")>>), S("a")>>),
    L(<<S("fn"), L(<<S("a")>>), L(<<S("begin"), L(<<S("def"), S("b"), S("a")>>), S("b")>>)>>),
    L(<<S("fn"), L(<<S("a")>>), L(<<S("def"), S("a"), N(1)>>)>>),
    L(<<S("fn"), L(<<S("x")>>), L(<<S("def"), S("y"), S("x")>>)>>) }

Heads2 ==
  { S("+"), S(">"), N(1), S("zz"),
    L(<<S("fn"), L(<<S("a"), S("b")>>), L(<<S("+"), S("a"), S("b")>>)>>),
    L(<<S("fn"), L(<<S("a")>>), S("a")>>) }

Args == { N(2), S("zz"), L(<<S("def"), S("y"), N(1)>>) }

ApplyProgs ==
  { L(<<h>>) : h \in Heads } \cup
  { L(<<h, a>>) : h \in Heads, a \in Args } \cup
  { L(<<h, a, b>>) : h \in Heads2, a \in Args, b \in Args } \cup
  { L(<<SelfApply, SelfApply>>) }

\* fn forms.
FnProgs ==
  { L(<<S("fn")>>), L(<<S("fn"), L(<<S("a")>>)>>), L(<<S("fn"), S("a"), S("a")>>),
    L(<<S("fn"), L(<<S("a"), S("a")>>), S("a")>>),
    L(<<S("fn"), L(<<S("a"), N(1)>>), S("a")>>),
    L(<<S("fn"), L(<<S("a")>>), S("a")>>),
    L(<<S("fn"), L(<<S("a")>>), S("a"), S("a")>>) }

\* quote forms.
Quoted ==
  Nums \cup
  { S("x"), S("zz"), S("quote"), L(<<>>), L(<<L(<<>>)>>),
    L(<<S("+"), N(1), N(2)>>), L(<<S("zz"), L(<<S("def"), S("x"), N(1)>>)>>),
    L(<<S("def"), S("y"), N(1)>>), L(<<S("quote"), S("x")>>) }

QuoteProgs ==
  { L(<<S("quote"), q>>) : q \in Quoted } \cup
  { L(<<S("quote")>>), L(<<S("quote"), S("x"), S("y")>>),
    L(<<S("quote"), L(<<S("def"), S("y"), N(1)>>), S("zz")>>) }

\* begin forms.
BeginItems == { S("x"), S("zz"), L(<<S("def"), S("x"), N(1)>>), L(<<S("def"), S("y"), S("x")>>) }

BeginProgs ==
  { L(<<S("begin")>>) } \cup
  { L(<<S("begin"), a>>) : a \in BeginItems } \cup
  { L(<<S("begin"), a, b>>) : a \in BeginItems, b \in BeginItems } \cup
  { L(<<S("begin"), L(<<S("def"), S("x"), N(1)>>), S("zz"), L(<<S("def"), S("y"), N(1)>>)>>),
    L(<<S("begin"), L(<<S("def"), S("x"), N(2)>>), L(<<S("def"), S("y"), S("x")>>), S("y")>>) }

AtomProgs == Nums \cup { S("x"), S("y"), S("a"), S("f"), S("zz"), S("+"), S("quote"), L(<<>>) }

Exprs == AtomProgs \cup DefProgs \cup IfProgs \cup ApplyProgs \cup FnProgs \cup QuoteProgs \cup BeginProgs

\* Source texts: each expression spelled the usual way, and texts with other
\* layouts, with trailing tokens, unbalanced or empty.
OddTexts ==
  { <<>>, <<" ", "\n">>, <<")">>, <<"(">>, <<"(", "de", "f", " ", "x", " ", "1">>,
    <<"\t", "(", "de", "f", "\n", "x", " ", " ", "2", ".0", ")", "\n">>,
    <<"(", "+", " ", "1", "(", "+", " ", "1", " ", "1", ")", ")">>,
    <<"(", "def", " ", "x", " ", "1", ")", " ", "(", "def", " ", "y", " ", "2", ")">>,
    <<"x", " ", ")", ")", "(">>,
    <<"(", "quote", " ", "x", ")", ")">> }

Programs == { Text(x) : x \in Exprs } \cup OddTexts

\* ------------------------------------------------- main.rs, repl.rs: drivers

\* Display for CrispExpr: rendering a native function or a lambda is todo!().
RECURSIVE Displayable(_)
Displayable(x) ==
  CASE x.t \in {"Fn", "Lambda"} -> FALSE
    [] x.t = "List" -> \A i \in DOMAIN x.xs : Displayable(x.xs[i])
    [] OTHER -> TRUE

Init ==
  /\ env = Default
  /\ pc = "main"
  /\ input = <<>>
  /\ tokens = <<>>
  /\ parsed = None
  /\ output = None
  /\ log = <<>>
  /\ pre = <<>>

\* What one call of run_program(prog, env) leaves behind.
Run(prog) ==
  LET r == run_program(prog, env)
  IN  /\ input' = prog
      /\ tokens' = lexer(prog)
      /\ parsed' = Some(parse(lexer(prog)))
      /\ pre' = env
      /\ env' = r.env
      /\ output' = Some(r.res)
      /\ log' = r.log

\* main with a file argument: interpret its contents in a fresh environment
\* and print the result.
MainFile(prog) ==
  /\ pc = "main"
  /\ Run(prog)
  /\ pc' = IF output'.val.tag = "Abort" THEN "aborted"
           ELSE IF output'.val.tag = "Ok" /\ ~Displayable(output'.val.val) THEN "aborted"
           ELSE "exited"

\* main without arguments: the REPL on a fresh environment.
MainRepl ==
  /\ pc = "main"
  /\ pc' = "readline"
  /\ UNCHANGED <<env, input, tokens, parsed, output, log, pre>>

\* One turn of the REPL loop: read a line, run it on the REPL's environment.
ReplEval(prog) ==
  /\ pc = "readline"
  /\ Run(prog)
  /\ pc' = IF output'.val.tag = "Abort" THEN "aborted" ELSE "print"

\* The turn's println!, after which the loop reads the next line.
ReplPrint ==
  /\ pc = "print"
  /\ pc' = "readline"
  /\ input' = <<>>
  /\ tokens' = <<>>
  /\ parsed' = None
  /\ output' = None
  /\ log' = <<>>
  /\ pre' = <<>>
  /\ UNCHANGED env

\* readline fails (end of input, interrupt): run returns the error.
ReplEof ==
  /\ pc = "readline"
  /\ pc' = "exited"
  /\ UNCHANGED <<env, input, tokens, parsed, output, log, pre>>

Next ==
  \/ \E prog \in Programs : MainFile(prog)
  \/ MainRepl
  \/ \E prog \in Programs : ReplEval(prog)
  \/ ReplPrint
  \/ ReplEof

Spec == Init /\ [][Next]_vars

\* ------------------------------------------- parse and run_program, stepwise

\* Well-formed expressions nested up to n deep, and every token sequence up
\* to n long over a small alphabet.
ParseAtoms == { S("x"), N(1) }

RECURSIVE ParseTreesTo(_)
ParseTreesTo(n) ==
  IF n = 0 THEN ParseAtoms \cup { L(<<>>) }
  ELSE LET prev == ParseTreesTo(n - 1)
       IN  prev \cup { L(<<a>>) : a \in prev } \cup { L(<<a, b>>) : a \in prev, b \in ParseAtoms }

ParseTrees == ParseTreesTo(MaxNest)

RECURSIVE TokenSeqs(_)
TokenSeqs(n) ==
  IF n = 0 THEN { <<>> }
  ELSE LET prev == TokenSeqs(n - 1)
       IN  prev \cup { Append(r, t) : r \in prev, t \in {"(", ")", "x", "1"} }

Rests == TokenSeqs(MaxRest)

UnparseOf == [x \in ParseTrees |-> Unparse(x)]

InitParse ==
  /\ tokens \in { UnparseOf[x] \o r : x \in ParseTrees, r \in Rests } \cup Rests
  /\ pc = "tokens"
  /\ env = Default
  /\ input = <<>>
  /\ parsed = None
  /\ output = None
  /\ log = <<>>
  /\ pre = <<>>

\* run_program's parse(&tokens)?: a syntax error is the call's result.
ParseStep ==
  /\ pc = "tokens"
  /\ parsed' = Some(parse(tokens))
  /\ IF parsed'.val.tag = "Ok"
     THEN pc' = "parsed" /\ UNCHANGED output
     ELSE pc' = "returned" /\ output' = Some(parsed'.val)
  /\ UNCHANGED <<env, input, tokens, log, pre>>

\* run_program's eval(&res.0, env): the remaining tokens res.1 are dropped.
EvalStep ==
  /\ pc = "parsed"
  /\ LET r == eval(parsed.val.val, env, 0)
     IN  /\ pre' = env
         /\ env' = r.env
         /\ output' = Some(r.res)
         /\ log' = r.log
  /\ pc' = "returned"
  /\ UNCHANGED <<input, tokens, parsed>>

NextParse == ParseStep \/ EvalStep

SpecParse == InitParse /\ [][NextParse]_vars

\* ------------------------------------------------------------- properties

\* A call of run_program has returned (not panicked) in this state, on an
\* input that parsed: Form is the expression that was evaluated.
Returned == output.some /\ output.val.tag # "Abort"
Evaluated == Returned /\ parsed.val.tag = "Ok"
Form == parsed.val.val
IsErr(r) == r.tag = "Err"

\* A list form whose first element is the symbol name.
IsForm(x, name) == x.t = "List" /\ x.xs # <<>> /\ x.xs[1] = Symbol(name)

Root(e) == e[1]
Bound(e, n) == n \in DOMAIN Root(e)

\* C1: once a name is bound in a scope its value is never changed in place:
\* no insert of a call of run_program, nested defs included, replaces the
\* value of a name its scope already holds.
C1_NoBindingOverwritten ==
  \A i \in DOMAIN log : log[i].k = "insert" => ~log[i].old.some

\* C2: when evaluation fails, the error returned is the first error raised,
\* unchanged, and nothing is evaluated after it was raised.
C2_FirstErrorReturned ==
  \A i \in DOMAIN log :
    (log[i].k = "raise" /\ \A j \in 1..(i - 1) : log[j].k # "raise") =>
      /\ output.val = Err(log[i].err)
      /\ \A j \in (i + 1)..Len(log) : log[j].k # "eval"

\* The trace index at which the eval entered at index i returns.
DoneOf(i) ==
  CHOOSE j \in (i + 1)..Len(log) :
    /\ log[j].k = "done" /\ log[j].d = log[i].d
    /\ \A m \in (i + 1)..(j - 1) : ~(log[m].k = "done" /\ log[m].d = log[i].d)

\* The evaluations the top-level form started itself, in order.
SubEvals == SelectSeq([i \in DOMAIN log |-> i], LAMBDA i : log[i].k = "eval" /\ log[i].d = 1)

\* A def form whose first argument is a symbol, and that symbol's name.
IsDef(x) == IsForm(x, "def") /\ Len(x.xs) >= 2 /\ x.xs[2].t = "Symbol"
DefName(x) == x.xs[2].name

\* (def x V) on an environment that does not bind x, with V evaluating to v:
\* the call returns Symbol x and x is bound to v.
C3_DefBinds ==
  (/\ Evaluated /\ IsDef(Form) /\ Len(Form.xs) = 3
   /\ ~Bound(pre, DefName(Form))
   /\ SubEvals # <<>> /\ log[DoneOf(SubEvals[1])].res.tag = "Ok")
  => /\ output.val = Ok(Symbol(DefName(Form)))
     /\ Bound(env, DefName(Form))
     /\ Root(env)[DefName(Form)] = log[DoneOf(SubEvals[1])].res.val

\* Evaluating a symbol the environment binds returns the bound value;
\* evaluating one no scope of the chain binds fails with "Unknown symbol".
C3_Lookup ==
  (Evaluated /\ Form.t = "Symbol")
  => IF get(pre, Form.name).some
     THEN output.val = Ok(get(pre, Form.name).val) /\ env = pre
     ELSE output.val = Err(EvalError("Unknown symbol: " \o Form.name)) /\ env = pre

\* A def on a name the environment's own scope binds fails with an
\* EvalError and leaves the binding as it was.
C3_Redef ==
  (Evaluated /\ IsDef(Form) /\ Bound(pre, DefName(Form)))
  => /\ IsErr(output.val) /\ output.val.err.kind = "EvalError"
     /\ env = pre

\* No step removes or changes a binding of the environment's own scope.
C3_Stable ==
  pc' # "aborted" =>
    \A n \in DOMAIN Root(env) : Bound(env', n) /\ Root(env')[n] = Root(env)[n]

\* C3: a name bound by (def x V) keeps the value V evaluated to: every later
\* evaluation of x on that environment returns it, a later def of x fails
\* with an EvalError and leaves it, and a name no scope binds is an
\* "Unknown symbol" EvalError.
C3_DefPersists ==
  [][C3_Stable /\ C3_DefBinds' /\ C3_Lookup' /\ C3_Redef']_vars

\* x was bound to 1 by an earlier line and a later (def x 2) was refused.
C3_Witness ==
  /\ Evaluated /\ pc = "print"
  /\ Form = L(<<S("def"), S("x"), N(2)>>)
  /\ Bound(pre, "x") /\ Root(pre)["x"] = N(1)
  /\ IsErr(output.val) /\ Root(env)["x"] = N(1)

\* C4 as stated: after a def form (def x E) fails, x is bound only if it was
\* bound before the call, with the same value.
C4_FailedDefLeavesNameAsBefore ==
  (Evaluated /\ IsDef(Form) /\ IsErr(output.val))
  => (Bound(env, DefName(Form))
        => Bound(pre, DefName(Form)) /\ Root(env)[DefName(Form)] = Root(pre)[DefName(Form)])

\* C4, amended: a def form that fails inserted nothing itself: the
\* environment is as the evaluation of its value expression left it (as
\* before the call when that was never evaluated), so its name is bound
\* afterwards only if it was bound before, with the same value, or a def
\* nested in the value expression bound it; the REPL goes on to its next
\* line.
C4_FailedDefInsertsNothing ==
  (Evaluated /\ IsForm(Form, "def") /\ IsErr(output.val))
  => /\ \A i \in DOMAIN log : log[i].k = "insert" => log[i].d > 0
     /\ env = IF SubEvals = <<>> THEN pre ELSE log[DoneOf(SubEvals[1])].env
     /\ IsDef(Form) /\ Bound(env, DefName(Form))
          => \/ /\ Bound(pre, DefName(Form))
                /\ Root(env)[DefName(Form)] = Root(pre)[DefName(Form)]
             \/ \E i \in DOMAIN log :
                  /\ log[i].k = "insert" /\ log[i].d > 0 /\ log[i].scope = 1
                  /\ log[i].name = DefName(Form)
                  /\ log[i].val = Root(env)[DefName(Form)]
     /\ pc \in {"print", "exited"}

\* A def of x failed in the REPL because its value expression failed, after
\* a def nested in that expression had bound x.
C4_Witness ==
  /\ Evaluated /\ pc = "print" /\ IsErr(output.val)
  /\ Form = L(<<S("def"), S("x"), L(<<S("begin"), L(<<S("def"), S("x"), N(1)>>), S("zz")>>)>>)
  /\ ~Bound(pre, "x") /\ Bound(env, "x")

\* The trace indices at which a lambda is applied.
Calls == {i \in DOMAIN log : log[i].k = "call"}
ArityOk(i) == Len(log[i].args) = Len(log[i].lam.params)
\* The index at which the body of the lambda applied at i is entered.
BodyOf(i) == i + Len(log[i].lam.params) + 1

\* The last position at which the p-th parameter name of the lambda applied
\* at i occurs in its parameter list (p itself when the names are distinct).
LastOf(i, p) ==
  CHOOSE q \in DOMAIN log[i].lam.params :
    /\ log[i].lam.params[q] = log[i].lam.params[p]
    /\ \A r \in DOMAIN log[i].lam.params : log[i].lam.params[r] = log[i].lam.params[p] => r <= q

\* C5: a lambda call binds its parameters and runs its body's defs in a
\* fresh child scope only: in the body each parameter resolves to its
\* argument, whatever the enclosing scopes bind, and throughout and after the
\* call the caller's environment and its ancestors are as they were when the
\* arguments had been evaluated.
C5_CallLeavesCallerEnv ==
  Returned =>
    \A i \in Calls :
      LET E == log[i].env
          j == DoneOf(i)
      IN  /\ log[j].env = E
          /\ \A m \in (i + 1)..(j - 1) :
               /\ log[m].k = "insert" => log[m].scope > Len(E)
               /\ log[m].k \in {"eval", "done"} =>
                    Len(log[m].env) > Len(E) /\ SubSeq(log[m].env, 1, Len(E)) = E
          /\ ArityOk(i) =>
               \A p \in DOMAIN log[i].args :
                 get(log[BodyOf(i)].env, log[i].lam.params[p]) = Some(log[i].args[LastOf(i, p)])

\* With a bound to 1 in the REPL's environment, a lambda with parameter a was
\* applied to 2 and its body defined b: the call returned 2 and left a as 1
\* and b unbound.
C5_Witness ==
  /\ Returned /\ pc = "print" /\ output.val = Ok(N(2))
  /\ Bound(pre, "a") /\ Root(env)["a"] = N(1) /\ ~Bound(env, "b")
  /\ \E i \in Calls : log[i].lam.params = <<"a">> /\ log[i].args = <<N(2)>>
  /\ \E m \in DOMAIN log : log[m].k = "insert" /\ log[m].name = "b" /\ log[m].scope = 2

WrongNumber == EvalError("Wrong number of arguments were supplied")

C6_WitnessMismatch ==
  /\ Returned /\ output.val = Err(WrongNumber)
  /\ \E i \in Calls : Len(log[i].lam.params) = 2 /\ Len(log[i].args) = 1

\* C7: (quote X) returns X as parsed, evaluating nothing and leaving the
\* environment as it was; a quote form without an argument fails with a
\* syntax error.
C7_QuoteReturnsArgument ==
  (Evaluated /\ IsForm(Form, "quote"))
  => /\ Len(Form.xs) = 2 =>
          /\ output.val = Ok(Form.xs[2]) /\ env = pre
          /\ log = <<EvEval(0, Form, pre), EvDone(0, output.val, pre)>>
     /\ Len(Form.xs) = 1 => IsErr(output.val) /\ output.val.err.kind = "SyntaxError"

\* C9: (if T A B) evaluates T once, first; when T is true only A is evaluated
\* next and its result and environment are the form's, when false only B; a
\* missing needed branch is "missing true or false clause"; a test value that
\* is no Bool is an EvalError with neither branch evaluated.
C9_IfEvaluatesOneBranch ==
  (Evaluated /\ IsForm(Form, "if") /\ Len(Form.xs) \in 2..4)
  => LET args == Tail(Form.xs)
         t == SubEvals[1]
         tdone == log[DoneOf(t)]
         i == IF tdone.res.val.b THEN 2 ELSE 3
     IN  /\ SubEvals # <<>> /\ log[t].e = args[1] /\ log[t].env = pre
         /\ (tdone.res.tag = "Ok" /\ tdone.res.val.t = "Bool") =>
              IF i \in DOMAIN args
              THEN /\ Len(SubEvals) = 2
                   /\ log[SubEvals[2]].e = args[i]
                   /\ log[SubEvals[2]].env = tdone.env
                   /\ output.val = log[DoneOf(SubEvals[2])].res
                   /\ env = log[DoneOf(SubEvals[2])].env
              ELSE /\ Len(SubEvals) = 1
                   /\ output.val = Err(EvalError("missing true or false clause"))
                   /\ env = tdone.env
         /\ (tdone.res.tag = "Ok" /\ tdone.res.val.t # "Bool") =>
              /\ Len(SubEvals) = 1
              /\ IsErr(output.val) /\ output.val.err.kind = "EvalError"
              /\ env = tdone.env

\* (if (> 1 2) (def x 1) (def y 2)) ran where neither x nor y was bound: y
\* is bound to 2 and x is still unbound.
C9_Witness ==
  /\ Evaluated /\ pc = "print"
  /\ Form = L(<<S("if"), L(<<S(">"), N(1), N(2)>>),
                L(<<S("def"), S("x"), N(1)>>), L(<<S("def"), S("y"), N(2)>>)>>)
  /\ ~Bound(pre, "x") /\ ~Bound(pre, "y")
  /\ output.val = Ok(S("y")) /\ Root(env)["y"] = N(2) /\ ~Bound(env, "x")

\* What evaluating the symbol name in the chain e yields.
Resolve(e, name) ==
  IF get(e, name).some THEN Ok(get(e, name).val)
  ELSE Err(EvalError("Unknown symbol: " \o name))

\* C10: the scope of a lambda call has the caller's environment at the call
\* site as its parent, and a symbol is resolved in the chain it is evaluated
\* in: a lambda whose body is a free variable returns what the caller's chain
\* binds it to.
C10_FreeVariablesResolveInCaller ==
  Returned =>
    /\ \A i \in Calls : ArityOk(i) =>
         /\ SubSeq(log[BodyOf(i)].env, 1, Len(log[BodyOf(i)].env) - 1) = log[i].env
         /\ (/\ log[i].lam.body.t = "Symbol"
             /\ \A p \in DOMAIN log[i].lam.params : log[i].lam.params[p] # log[i].lam.body.name)
            => log[DoneOf(i)].res = Resolve(log[i].env, log[i].lam.body.name)
    /\ \A m \in DOMAIN log : (log[m].k = "eval" /\ log[m].e.t = "Symbol") =>
         log[DoneOf(m)].res = Resolve(log[m].env, log[m].e.name)

\* With a bound to 1 in the REPL's environment, f (whose body is the free
\* variable a) was called from the body of g, whose parameter a was 2: the
\* call returned 2.
C10_Witness ==
  /\ Evaluated /\ pc = "print"
  /\ Form = L(<<S("g"), N(2)>>)
  /\ Bound(pre, "a") /\ Root(pre)["a"] = N(1)
  /\ output.val = Ok(N(2))
  /\ \E i \in Calls : /\ log[i].lam = Lambda(<<>>, S("a"))
                      /\ Len(log[i].env) = 2 /\ log[i].env[2]["a"] = N(2)

\* C8: on the tokens of one well-formed expression E followed by any tokens
\* R, parse returns the tree of E and exactly R, and run_program returns what
\* evaluating E returns, whatever R is.
C8_ParseReturnsTreeAndRest ==
  parsed.some =>
    \A k \in 1..Len(tokens) : \A x \in ParseTrees :
      SubSeq(tokens, 1, k) = UnparseOf[x] =>
        /\ parsed.val = ParseOk(x, SubSeq(tokens, k + 1, Len(tokens)))
        /\ pc = "returned" => output.val = eval(x, Default, 0).res

\* parse read ((x) 1) and left the unbalanced tokens ") (" behind;
\* run_program went on to evaluate the list.
C8_Witness ==
  /\ pc = "returned"
  /\ tokens = <<"(", "(", "x", ")", "1", ")", ")", "(">>
  /\ parsed.val = ParseOk(L(<<L(<<S("x")>>), N(1)>>), <<")", "(">>)
  /\ output.val = Err(EvalError("Unknown symbol: x"))

\* The evaluations of begin forms with at least one argument, and the
\* evaluations the form entered at i started itself, in order.
Begins ==
  {i \in DOMAIN log : log[i].k = "eval" /\ IsForm(log[i].e, "begin") /\ Len(log[i].e.xs) >= 2}
Kids(i) ==
  SelectSeq([m \in DOMAIN log |-> m],
            LAMBDA m : /\ m > i /\ m < DoneOf(i)
                       /\ log[m].k = "eval" /\ log[m].d = log[i].d + 1)

\* Every binding of environment a is a binding of environment b.
Keeps(a, b) ==
  /\ Len(a) = Len(b)
  /\ \A s \in DOMAIN a : \A nm \in DOMAIN a[s] : nm \in DOMAIN b[s] /\ b[s][nm] = a[s][nm]

\* C11: (begin e1 ... en), n >= 1, evaluates e1, e2, ... in that order and
\* nothing else, e1 in the environment of the form and each next one in the
\* environment the one before left, so that every binding there is when ei
\* has returned is there for every later ej and when the form returns; it
\* stops after the first ei that fails and returns ei's error; when none
\* fails it returns the value of en.
C11_BeginInOrder ==
  Evaluated =>
    \A i \in Begins :
      LET x == log[i].e.xs
          n == Len(x) - 1
          ks == Kids(i)
          k == Len(ks)
          j == DoneOf(i)
      IN  /\ k \in 1..n
          /\ \A m \in 1..k : log[ks[m]].e = x[m + 1]
          /\ log[ks[1]].env = log[i].env
          /\ \A m \in 1..(k - 1) :
               /\ log[DoneOf(ks[m])].res.tag = "Ok"
               /\ log[ks[m + 1]].env = log[DoneOf(ks[m])].env
          /\ \A m \in 1..k :
               /\ \A m2 \in (m + 1)..k : Keeps(log[DoneOf(ks[m])].env, log[ks[m2]].env)
               /\ Keeps(log[DoneOf(ks[m])].env, log[j].env)
          /\ log[j].res = log[DoneOf(ks[k])].res
          /\ log[j].env = log[DoneOf(ks[k])].env
          /\ k < n => IsErr(log[j].res)
          /\ log[i].d = 0 => output.val = log[j].res /\ env = log[j].env

\* (begin (def x 1) zz (def y 1)) on an environment binding neither x nor y:
\* zz failed, its error was returned, x stayed bound to 1 and (def y 1) was
\* never evaluated.
C11_Witness ==
  /\ Evaluated /\ pc = "print"
  /\ Form = L(<<S("begin"), L(<<S("def"), S("x"), N(1)>>), S("zz"), L(<<S("def"), S("y"), N(1)>>)>>)
  /\ ~Bound(pre, "x") /\ ~Bound(pre, "y")
  /\ output.val = Err(EvalError("Unknown symbol: zz"))
  /\ Bound(env, "x") /\ Root(env)["x"] = N(1) /\ ~Bound(env, "y")
  /\ Len(Kids(1)) = 2

\* (begin (def x 2) (def y x) y) on an environment binding neither x nor y:
\* (def y x) saw the x the first expression bound and the form returned the
\* value of its last expression.
C11_WitnessVisible ==
  /\ Evaluated /\ pc = "print"
  /\ Form = L(<<S("begin"), L(<<S("def"), S("x"), N(2)>>), L(<<S("def"), S("y"), S("x")>>), S("y")>>)
  /\ ~Bound(pre, "x") /\ ~Bound(pre, "y")
  /\ output.val = Ok(N(2))
  /\ Root(env)["x"] = N(2) /\ Root(env)["y"] = N(2)
  /\ Len(Kids(1)) = 3
====
